---- MODULE Spec2Model ----
(***************************************************************************)
(* Model of the wake-word-gated voice interaction loop: class              *)
(* VoiceAssistant (__init__, listen_for_wake_word, listen_for_input,       *)
(* generate_response, play_audio, cleanup, run) as listed in               *)
(* src/AI_WORKFLOW_CLARIFICATION.md, lines 510-1168.                       *)
(*                                                                         *)
(* The program is one thread of control; pc is its position.  Every call   *)
(* into a library (PyAudio, speech_recognition, requests, the fallback     *)
(* services, pygame) is a step whose outcome the environment chooses.      *)
(* run() only ever passes the ".wav" path returned by listen_for_input to  *)
(* generate_response, so the text-input branches (lines 863-876, 961-966)  *)
(* are not reachable from the loop and are not modelled.                   *)
(***************************************************************************)
EXTENDS Naturals, FiniteSets, Sequences, TLC

VARIABLES
    pc,                 \* position of the single thread of control
    phase,              \* "first" (after the wake word) or "followup" capture/response
    cycles,             \* wake-word detections so far (bounded by MaxCycles)
    dead_reads,         \* consecutive listen_for_wake_word calls that returned False
    porcupine,          \* Porcupine handle: "none" | "live" | "deleted"
    porcupine_audio,    \* PyAudio instance: "none" | "live" | "terminated"
    porcupine_stream,   \* the stream self.porcupine_stream refers to: "none" | "open" | "closed"
    orphan_open,        \* an earlier spotter stream, no longer referenced, is still open
    mic_open,           \* the speech_recognition capture stream (with sr.Microphone()) is open
    session,            \* requests.Session: "none" | "open" | "closed"
    use_api,            \* self.use_api
    health,             \* outcome of the startup health check
    gemini_service,     \* hasattr(self, 'gemini_service')
    elevenlabs_service, \* hasattr(self, 'elevenlabs_service')
    lfi_result,         \* value returned by the last listen_for_input: "unset" | "None" | "wav"
    reopen,             \* outcome of the reopen in the finally of the last listen_for_input
    unwinding,          \* a KeyboardInterrupt is propagating through listen_for_input's finally
    close_error,        \* which call raised when the last listen_for_input closed the spotter stream
    exc,                \* what reached run()'s except clauses: "none" | "interrupt" | "error"
    remote,             \* outcome of the remote branch of the current generate_response call
    fb_entered,         \* the current generate_response call entered the fallback try block
    fb_failed,          \* an exception was raised inside the fallback try block of this call
    fallback_ever,      \* some generate_response call has entered the fallback try block
    posts,              \* POSTs to /api/ask made by the current generate_response call
    gen_calls,          \* calls of the generation service made by the current call
    el_calls,           \* ElevenLabs text_to_speech calls made by the current call
    gtts_calls,         \* gTTS syntheses made by the current call
    plays,              \* play_audio invocations for the current call's payload
    payloads,           \* payloads returned by the current generate_response call
    response,           \* the payload returned by the last generate_response call
    download,           \* audio download of the current call: "none" | "ok" | "failed" | "write_failed"
    on_disk,            \* what run() found when it looked for the payload's audio file
    playback,           \* how the play_audio call that has just returned ended
    c_calls,            \* generate_response calls since the last wake-word detection
    c_posts,            \* POSTs to /api/ask since the last wake-word detection
    c_fallbacks,        \* entries into the fallback block since the last detection
    c_plays,            \* play_audio invocations since the last wake-word detection
    test_text,          \* listen_for_input: the text recognize_google returned, until its last use
    recog,              \* listen_for_input: outcome of the recognition pass
    audio_len,          \* listen_for_input: len(audio_data)
    save,               \* listen_for_input: outcome of the size check and the write
    released,           \* cleanup(): the release steps made so far, in order
    release_failed,     \* cleanup(): the release steps whose call raised
    access_key,         \* PICOVOICE_ACCESS_KEY: "unread" | "set" | "missing"
    platform_variants,  \* __init__: the platform variants, in priority order
    files,              \* __init__: the candidate model paths that exist on disk
    keyword_path,       \* __init__: the model path chosen by the search, or NoPath
    creates,            \* __init__: pvporcupine.create calls made
    porcupine_model,    \* __init__: what the successful create was given
    picovoice,          \* PicovoiceWakeWordService.picovoice: "null" | "live"
    isListening,        \* PicovoiceWakeWordService.isListening
    vp_starts,          \* VoiceProcessor.start invocations, pending or resolved, since the last stop() call
    tk,                 \* the async calls into the service: method and position, per caller
    mounted,            \* ARPlaceholder: "no" | "yes" | "gone"
    iife,               \* ARPlaceholder: position of the wake-word async block of the mount effect
    hasPermission,      \* ARPlaceholder.hasPermission: "null" | "granted" | "denied"
    isListeningForWakeWord, \* ARPlaceholder.isListeningForWakeWord
    ar_isLoading,       \* ARPlaceholder.isLoading
    ask,                \* ARPlaceholder: position of each handleAskQuestion call in progress
    timers,             \* ARPlaceholder: pending setTimeout callbacks of handleWakeWordDetected
    av_isLoading,       \* AvatarScreen.isLoading
    av_isConnected,     \* AvatarScreen.isConnected
    av_error,           \* AvatarScreen.error: "null" or the kind of message set
    av_connect,         \* AvatarScreen: position of the connect() call in progress
    ws,                 \* AvatarScreen: state of the WebSocket connect() created
    ws_ref,             \* AvatarScreen: websocketRef.current is set
    ws_errors,          \* AvatarScreen: error events delivered to ws.onerror
    av_connects         \* AvatarScreen: connect() calls made (bounded by MaxConnects)

streams == <<porcupine_stream, orphan_open, mic_open>>
handles == <<porcupine, porcupine_audio, session>>
svc     == <<use_api, health, gemini_service, elevenlabs_service>>
ctl     == <<phase, cycles, dead_reads, lfi_result, reopen, unwinding, close_error, exc>>
call    == <<remote, fb_entered, fb_failed, fallback_ever, posts, gen_calls,
             el_calls, gtts_calls, plays, payloads, response>>
io      == <<download, on_disk, playback>>
cyc     == <<c_calls, c_posts, c_fallbacks, c_plays>>
loc     == <<test_text, recog, audio_len, save>>
rel     == <<released, release_failed>>
ini     == <<access_key, platform_variants, files, keyword_path, creates, porcupine_model>>
py      == <<pc, streams, handles, svc, ctl, call, io, cyc, loc, rel, ini>>
sv      == <<picovoice, isListening, vp_starts, tk>>
ar      == <<mounted, iife, hasPermission, isListeningForWakeWord, ar_isLoading, ask, timers>>
av      == <<av_isLoading, av_isConnected, av_error, av_connect, ws, ws_ref, ws_errors,
             av_connects>>
js      == <<sv, ar, av>>
vars    == <<py, js>>

(***************************************************************************)
(* Bounds of the model and constants of the program.                       *)
(***************************************************************************)
MaxCycles == 2
MaxDeadReads == 2
MaxTextLen == 3
MaxTasks == 2
MaxAsks == 2
MaxTimers == 2
MaxConnects == 3
MinSpeechLen == 3
MinAudioBytes == 10000

AudioSizes == {0, MinAudioBytes - 1, MinAudioBytes, MinAudioBytes + 1}

RemoteFailures == {"open_failed", "neterr", "timeout", "http_error", "bad_body"}

NoPayload ==
    [text |-> "none", audio_file |-> "none", emotion |-> "none", response_time |-> "none"]

ErrorPayload ==
    [text |-> "sorry", audio_file |-> "None", emotion |-> "error", response_time |-> "0"]

RemotePayload(audio) ==
    [text |-> "text", audio_file |-> audio, emotion |-> "remote", response_time |-> "elapsed"]

FallbackPayload ==
    [text |-> "answer", audio_file |-> "path", emotion |-> "neutral", response_time |-> "gemini"]

LfiPcs == {"lfi_stop", "lfi_mic", "lfi_calibrate", "lfi_listen", "lfi_validate",
           "lfi_save", "lfi_finally"}

CapturingPcs == {"lfi_calibrate", "lfi_listen", "lfi_validate", "lfi_save"}

GrPcs == {"gr_start", "gr_post", "gr_download", "gr_fallback", "gr_generate", "gr_tts"}

FallbackPcs == {"gr_fallback", "gr_generate", "gr_tts"}

validate_speech == phase = "followup"

\* A candidate model path: the platform target in its name and the directory
\* it lies in.
NoPath == [target |-> "none", dir |-> "none"]

Builtin == [target |-> "builtin", dir |-> "library"]

Systems == {"darwin", "linux", "windows", "other"}

\* platform_variants as __init__ derives it from platform.system() and, on
\* linux, from whether platform.machine() names an arm/aarch processor.
PlatformVariants(system, arm) ==
    IF system = "darwin" THEN <<"mac", "mac_arm64", "mac_x86_64">>
    ELSE IF system = "linux"
         THEN IF arm THEN <<"linux_arm64", "linux">> ELSE <<"linux_x86_64", "linux">>
    ELSE IF system = "windows" THEN <<"windows">>
    ELSE <<"linux_x86_64", "linux">>

\* model_paths: two paths per variant (project directory, parent directory),
\* then the two wasm paths.
RECURSIVE VariantPaths(_)
VariantPaths(variants) ==
    IF variants = <<>> THEN <<>>
    ELSE <<[target |-> Head(variants), dir |-> "here"],
           [target |-> Head(variants), dir |-> "parent"]>>
         \o VariantPaths(Tail(variants))

ModelPaths(variants) ==
    VariantPaths(variants)
        \o <<[target |-> "wasm", dir |-> "here"], [target |-> "wasm", dir |-> "assets"]>>

\* 'wasm' in str(path).lower()
IsWasm(path) == path.target = "wasm"

\* Variant of FindKeywordPath: the first path that exists, whatever its target.
RECURSIVE FindKeywordPathAnyTarget(_, _)
FindKeywordPathAnyTarget(paths, existing) ==
    IF paths = <<>> THEN NoPath
    ELSE IF Head(paths) \in existing THEN Head(paths)
         ELSE FindKeywordPathAnyTarget(Tail(paths), existing)

\* The search loop: the first path that exists and is not a wasm model; a
\* wasm model that exists is skipped with a warning (continue).
RECURSIVE FindKeywordPath(_, _)
FindKeywordPath(paths, existing) ==
    IF paths = <<>> THEN NoPath
    ELSE IF Head(paths) \in existing
         THEN IF IsWasm(Head(paths)) THEN FindKeywordPath(Tail(paths), existing)
              ELSE Head(paths)
         ELSE FindKeywordPath(Tail(paths), existing)

PyInit ==
    /\ pc = "init_key"
    /\ phase = "first"
    /\ cycles = 0
    /\ dead_reads = 0
    /\ porcupine = "none"
    /\ porcupine_audio = "none"
    /\ porcupine_stream = "none"
    /\ orphan_open = FALSE
    /\ mic_open = FALSE
    /\ session = "none"
    /\ use_api = FALSE
    /\ health = "none"
    /\ gemini_service = FALSE
    /\ elevenlabs_service = FALSE
    /\ lfi_result = "unset"
    /\ reopen = "none"
    /\ unwinding = FALSE
    /\ close_error = "none"
    /\ exc = "none"
    /\ remote = "none"
    /\ fb_entered = FALSE
    /\ fb_failed = FALSE
    /\ fallback_ever = FALSE
    /\ posts = 0
    /\ gen_calls = 0
    /\ el_calls = 0
    /\ gtts_calls = 0
    /\ plays = 0
    /\ payloads = 0
    /\ response = NoPayload
    /\ download = "none"
    /\ on_disk = "unchecked"
    /\ playback = "none"
    /\ c_calls = 0
    /\ c_posts = 0
    /\ c_fallbacks = 0
    /\ c_plays = 0
    /\ test_text = <<>>
    /\ recog = "none"
    /\ audio_len = 0
    /\ save = "none"
    /\ released = <<>>
    /\ release_failed = {}
    /\ access_key = "unread"
    /\ platform_variants = <<>>
    /\ files = {}
    /\ keyword_path = NoPath
    /\ creates = 0
    /\ porcupine_model = NoPath

Tasks == 1..MaxTasks

Asks == 1..MaxAsks

Idle == [m |-> "idle", at |-> "idle"]

JsInit ==
    /\ picovoice = "null"
    /\ isListening = FALSE
    /\ vp_starts = 0
    /\ tk = [t \in Tasks |-> Idle]
    /\ mounted = "no"
    /\ iife = "idle"
    /\ hasPermission = "null"
    /\ isListeningForWakeWord = FALSE
    /\ ar_isLoading = FALSE
    /\ ask = [a \in Asks |-> "idle"]
    /\ timers = 0
    /\ av_isLoading = FALSE
    /\ av_isConnected = FALSE
    /\ av_error = "null"
    /\ av_connect = "idle"
    /\ ws = "none"
    /\ ws_ref = FALSE
    /\ ws_errors = 0
    /\ av_connects = 0

Init == PyInit /\ JsInit

(***************************************************************************)
(* __init__                                                                *)
(***************************************************************************)
\* if not PICOVOICE_ACCESS_KEY: sys.exit(1)
InitKey ==
    /\ pc = "init_key"
    /\ UNCHANGED <<io, cyc, loc, rel, js>>
    /\ \E present \in BOOLEAN :
         /\ access_key' = IF present THEN "set" ELSE "missing"
         /\ pc' = IF present THEN "init_resolve" ELSE "exited"
    /\ UNCHANGED <<platform_variants, files, keyword_path, creates, porcupine_model,
                   streams, handles, svc, ctl, call>>

\* The platform variants, the candidate paths and the search for the first
\* one that exists and is not a wasm model.
InitResolve ==
    /\ pc = "init_resolve"
    /\ UNCHANGED <<io, cyc, loc, rel, js>>
    /\ \E system \in Systems, arm \in BOOLEAN :
         LET variants == PlatformVariants(system, arm)
             paths == ModelPaths(variants)
         IN  \E existing \in SUBSET {paths[i] : i \in 1..Len(paths)} :
               /\ platform_variants' = variants
               /\ files' = existing
               /\ keyword_path' = FindKeywordPath(paths, existing)
    /\ pc' = "init_porcupine"
    /\ UNCHANGED <<access_key, creates, porcupine_model, streams, handles, svc, ctl, call>>

\* pvporcupine.create with keyword_paths=[keyword_path] when the search found
\* a model, with keywords=["Harry-Potter"] (the built-in keyword) when it did
\* not; on any failure the except clause calls sys.exit(1).
InitPorcupine ==
    /\ pc = "init_porcupine"
    /\ UNCHANGED <<io, cyc, loc, rel, js>>
    /\ creates' = creates + 1
    /\ \E ok \in BOOLEAN :
         IF ok THEN /\ porcupine' = "live"
                    /\ porcupine_model' =
                          (IF keyword_path = NoPath THEN Builtin ELSE keyword_path)
                    /\ pc' = "init_stream"
               ELSE /\ UNCHANGED <<porcupine, porcupine_model>>
                    /\ pc' = "exited"
    /\ UNCHANGED <<access_key, platform_variants, files, keyword_path,
                   porcupine_audio, session, streams, svc, ctl, call>>

\* pyaudio.PyAudio() and porcupine_audio.open(...): not guarded, a failure ends
\* the process; then the Recognizer, the Microphone object (not opened) and the
\* requests.Session are created.  The values of the model resolution are not
\* read again and are dropped here.
InitStream ==
    /\ pc = "init_stream"
    /\ UNCHANGED <<io, cyc, loc, rel, js>>
    /\ access_key' = "unread"
    /\ platform_variants' = <<>>
    /\ files' = {}
    /\ keyword_path' = NoPath
    /\ creates' = 0
    /\ porcupine_model' = NoPath
    /\ \E ok \in BOOLEAN :
         IF ok THEN /\ porcupine_audio' = "live"
                    /\ porcupine_stream' = "open"
                    /\ session' = "open"
                    /\ pc' = "init_health"
               ELSE /\ UNCHANGED <<porcupine_audio, porcupine_stream, session>>
                    /\ pc' = "exited"
    /\ UNCHANGED <<porcupine, orphan_open, mic_open, svc, ctl, call>>

\* Variant of InitHealth: the services are constructed on every failed health
\* check, also when the endpoint answers with a status other than 200.
InitHealthEager ==
    /\ pc = "init_health"
    /\ UNCHANGED <<io, cyc, loc, rel, ini, js>>
    /\ \E h \in {"ok", "status", "exception"} :
         /\ health' = h
         /\ use_api' = (h = "ok")
         /\ gemini_service' = (h # "ok")
         /\ elevenlabs_service' = (h # "ok")
         /\ pc' = "wake"
    /\ UNCHANGED <<streams, handles, ctl, call>>

\* GET /api/health: status 200, another status, or an exception; only the
\* except branch constructs the fallback services, and a constructor that
\* raises there is not caught.
InitHealth ==
    /\ pc = "init_health"
    /\ UNCHANGED <<io, cyc, loc, rel, ini, js>>
    /\ \E h \in {"ok", "status", "exception"} :
         /\ health' = h
         /\ use_api' = (h = "ok")
         /\ IF h = "exception"
            THEN \E built \in BOOLEAN :
                   IF built THEN /\ gemini_service' = TRUE
                                 /\ elevenlabs_service' = TRUE
                                 /\ pc' = "wake"
                            ELSE /\ UNCHANGED <<gemini_service, elevenlabs_service>>
                                 /\ pc' = "exited"
            ELSE /\ UNCHANGED <<gemini_service, elevenlabs_service>>
                 /\ pc' = "wake"
    /\ UNCHANGED <<streams, handles, ctl, call>>

(***************************************************************************)
(* listen_for_wake_word                                                    *)
(***************************************************************************)
\* A frame is read from the spotter stream and Porcupine reports the keyword:
\* returns True and run() calls listen_for_input().  Frames without the keyword
\* change nothing and are stuttering steps.
WakeDetected ==
    /\ pc = "wake"
    /\ UNCHANGED <<io, loc, rel, ini, js>>
    /\ porcupine_stream = "open"
    /\ cycles < MaxCycles
    /\ c_calls' = 0
    /\ c_posts' = 0
    /\ c_fallbacks' = 0
    /\ c_plays' = 0
    /\ cycles' = cycles + 1
    /\ dead_reads' = 0
    /\ phase' = "first"
    /\ lfi_result' = "unset"
    /\ reopen' = "none"
    /\ close_error' = "none"
    /\ pc' = "lfi_stop"
    /\ UNCHANGED <<unwinding, exc, streams, handles, svc, call>>

\* read() or process() raises (always so on a stream that is not open): the
\* except clause returns False and run() calls listen_for_wake_word again.
WakeError ==
    /\ pc = "wake"
    /\ UNCHANGED <<io, cyc, loc, rel, ini, js>>
    /\ dead_reads < MaxDeadReads
    /\ dead_reads' = dead_reads + 1
    /\ pc' = "wake"
    /\ UNCHANGED <<phase, cycles, lfi_result, reopen, unwinding, close_error, exc,
                   streams, handles, svc, call>>

(***************************************************************************)
(* listen_for_input(timeout, validate_speech)                              *)
(***************************************************************************)
\* The state of the spotter stream after  try: stop_stream(); close()
\* except Exception: log.  e names the call that raised.  When stop_stream()
\* raises, close() is skipped; what a raising call leaves of an open stream is
\* the library's choice.
AfterStopClose(s, e) ==
    IF s = "open"
    THEN IF e = "none" THEN {"closed"} ELSE {"open", "closed"}
    ELSE {s}

LfiStop ==
    /\ pc = "lfi_stop"
    /\ UNCHANGED <<io, cyc, loc, rel, ini, js>>
    /\ \E e \in {"none", "stop", "close"} :
         /\ porcupine_stream = "closed" => e # "none"
         /\ close_error' = e
         /\ porcupine_stream' \in AfterStopClose(porcupine_stream, e)
    /\ pc' = "lfi_mic"
    /\ UNCHANGED <<phase, cycles, dead_reads, lfi_result, reopen, unwinding, exc,
                   orphan_open, mic_open, handles, svc, call>>

\* Variant of LfiReturn: the return leaves the function without the finally
\* clause.
LfiReturnNoFinally(result) ==
    /\ lfi_result' = result
    /\ mic_open' = FALSE
    /\ pc' = "run_input"

\* return None / return str(audio_file) from inside the try block: the with
\* block has closed the capture stream, the finally clause runs next.
LfiReturn(result) ==
    /\ lfi_result' = result
    /\ mic_open' = FALSE
    /\ pc' = "lfi_finally"

\* Variant of LfiMic: the microphone is opened outside the try block, a
\* failure to open it reaches run().
LfiMicPropagates ==
    /\ pc = "lfi_mic"
    /\ UNCHANGED <<io, cyc, loc, rel, ini, js>>
    /\ \E ok \in BOOLEAN :
         IF ok THEN /\ mic_open' = TRUE
                    /\ pc' = "lfi_calibrate"
                    /\ exc' = exc
               ELSE /\ mic_open' = FALSE
                    /\ pc' = "cleanup_stream"
                    /\ exc' = "error"
    /\ UNCHANGED <<phase, cycles, dead_reads, lfi_result, reopen, unwinding, close_error,
                   porcupine_stream, orphan_open, handles, svc, call>>

\* with sr.Microphone() as mic: opens the capture stream, or raises.
LfiMic ==
    /\ pc = "lfi_mic"
    /\ UNCHANGED <<io, cyc, loc, rel, ini, js>>
    /\ \E ok \in BOOLEAN :
         IF ok THEN /\ mic_open' = TRUE
                    /\ pc' = "lfi_calibrate"
                    /\ UNCHANGED lfi_result
               ELSE LfiReturn("None")
    /\ UNCHANGED <<phase, cycles, dead_reads, reopen, unwinding, close_error, exc,
                   porcupine_stream, orphan_open, handles, svc, call>>

\* adjust_for_ambient_noise(mic, duration=0.3), and the energy threshold floor
\* when validate_speech.
LfiCalibrate ==
    /\ pc = "lfi_calibrate"
    /\ UNCHANGED <<io, cyc, loc, rel, ini, js>>
    /\ \E ok \in BOOLEAN :
         IF ok THEN /\ pc' = "lfi_listen"
                    /\ UNCHANGED <<lfi_result, mic_open>>
               ELSE LfiReturn("None")
    /\ UNCHANGED <<phase, cycles, dead_reads, reopen, unwinding, close_error, exc,
                   porcupine_stream, orphan_open, handles, svc, call>>

\* temp_recognizer.listen(mic, timeout, phrase_time_limit=8): audio captured
\* (the with block ends, closing the capture stream), WaitTimeoutError, or
\* another exception.
LfiListen ==
    /\ pc = "lfi_listen"
    /\ UNCHANGED <<io, cyc, loc, rel, ini, js>>
    /\ \E o \in {"audio", "timeout", "error"} :
         IF o = "audio"
         THEN /\ mic_open' = FALSE
              /\ pc' = IF validate_speech THEN "lfi_validate" ELSE "lfi_save"
              /\ UNCHANGED lfi_result
         ELSE LfiReturn("None")
    /\ UNCHANGED <<phase, cycles, dead_reads, reopen, unwinding, close_error, exc,
                   porcupine_stream, orphan_open, handles, svc, call>>

\* The texts recognize_google may return: strings of letters and blanks.
Chars == {"a", " "}

Texts == UNION {[1..n -> Chars] : n \in 0..MaxTextLen}

\* Variant of Strip: the text is measured untrimmed.
StripNone(t) == t

\* str.strip(): leading and trailing whitespace removed.
RECURSIVE StripLeft(_)
StripLeft(t) ==
    IF t # <<>> /\ Head(t) = " " THEN StripLeft(Tail(t)) ELSE t

RECURSIVE StripRight(_)
StripRight(t) ==
    IF t # <<>> /\ t[Len(t)] = " " THEN StripRight(SubSeq(t, 1, Len(t) - 1)) ELSE t

Strip(t) == StripRight(StripLeft(t))

\* not (not test_text or len(test_text.strip()) < 3), on the trimmed length n
\* (an empty text has trimmed length 0).
SpeechAccepted(n) == n >= MinSpeechLen

\* recognize_google(audio): a text, or an exception (UnknownValueError,
\* RequestError, any other); each exception returns None.
LfiValidate ==
    /\ pc = "lfi_validate"
    /\ UNCHANGED <<io, cyc, rel, audio_len, save, ini, js>>
    /\ \/ \E t \in Texts :
            /\ test_text' = t
            /\ recog' = "text"
            /\ IF SpeechAccepted(Len(Strip(t)))
               THEN /\ pc' = "lfi_save"
                    /\ UNCHANGED <<lfi_result, mic_open>>
               ELSE LfiReturn("None")
       \/ \E e \in {"unknown_value", "request_error", "error"} :
            /\ test_text' = test_text
            /\ recog' = e
            /\ LfiReturn("None")
    /\ UNCHANGED <<phase, cycles, dead_reads, reopen, unwinding, close_error, exc,
                   porcupine_stream, orphan_open, handles, svc, call>>

\* Variant of SizeAccepted: an artifact of exactly the minimum size is
\* rejected.
SizeAcceptedStrict(n) == n > MinAudioBytes

\* audio.get_wav_data(), the size check and the write of the artifact;
\* test_text is not read after the validation and is dropped here.
SizeAccepted(n) == ~(n < MinAudioBytes)

LfiSave ==
    /\ pc = "lfi_save"
    /\ UNCHANGED <<io, cyc, rel, ini, js>>
    /\ test_text' = <<>>
    /\ recog' = "none"
    /\ \E n \in AudioSizes, written \in BOOLEAN :
         /\ audio_len' = n
         /\ save' = IF ~SizeAccepted(n) THEN "too_short"
                    ELSE IF written THEN "written" ELSE "write_failed"
         /\ LfiReturn(IF SizeAccepted(n) /\ written THEN "wav" ELSE "None")
    /\ UNCHANGED <<phase, cycles, dead_reads, reopen, unwinding, close_error, exc,
                   porcupine_stream, orphan_open, handles, svc, call>>

\* Variant of LfiFinally: the finally clause does not reopen the stream.
LfiFinallyNoReopen ==
    /\ pc = "lfi_finally"
    /\ UNCHANGED <<io, cyc, rel, ini, js>>
    /\ test_text' = <<>>
    /\ recog' = "none"
    /\ audio_len' = 0
    /\ save' = "none"
    /\ IF unwinding
       THEN /\ exc' = "interrupt"
            /\ pc' = "cleanup_stream"
       ELSE /\ exc' = exc
            /\ pc' = "run_input"
    /\ unwinding' = FALSE
    /\ UNCHANGED <<phase, cycles, dead_reads, lfi_result, reopen, close_error,
                   streams, handles, svc, call>>

\* finally: self.porcupine_stream = self.porcupine_audio.open(...), a failure
\* is logged only.  A stream the handle still referred to as open stays open
\* without a reference once the handle is rebound.  Then the function returns
\* to run(), or the pending KeyboardInterrupt goes on to run().
LfiFinally ==
    /\ pc = "lfi_finally"
    /\ UNCHANGED <<io, cyc, rel, ini, js>>
    /\ test_text' = <<>>
    /\ recog' = "none"
    /\ audio_len' = 0
    /\ save' = "none"
    /\ \E ok \in BOOLEAN :
         IF ok THEN /\ porcupine_stream' = "open"
                    /\ orphan_open' = (orphan_open \/ porcupine_stream = "open")
                    /\ reopen' = "ok"
               ELSE /\ UNCHANGED <<porcupine_stream, orphan_open>>
                    /\ reopen' = "failed"
    /\ IF unwinding
       THEN /\ exc' = "interrupt"
            /\ pc' = "cleanup_stream"
       ELSE /\ exc' = exc
            /\ pc' = "run_input"
    /\ unwinding' = FALSE
    /\ UNCHANGED <<phase, cycles, dead_reads, lfi_result, close_error, mic_open,
                   handles, svc, call>>

(***************************************************************************)
(* run(): the test of the value listen_for_input returned                  *)
(***************************************************************************)
\* Variant of RunInput: generate_response is called whatever the capture
\* returned.
RunInputAlways ==
    /\ pc = "run_input"
    /\ UNCHANGED <<c_posts, c_fallbacks, c_plays, loc, rel, ini, js>>
    /\ pc' = "gr_start"
    /\ c_calls' = c_calls + 1
    /\ download' = "none"
    /\ on_disk' = "unchecked"
    /\ playback' = "none"
    /\ remote' = "none"
    /\ fb_entered' = FALSE
    /\ fb_failed' = FALSE
    /\ posts' = 0
    /\ gen_calls' = 0
    /\ el_calls' = 0
    /\ gtts_calls' = 0
    /\ plays' = 0
    /\ payloads' = 0
    /\ response' = NoPayload
    /\ UNCHANGED fallback_ever
    /\ UNCHANGED <<streams, handles, svc, ctl>>

\* Variant of RunInput: a first capture of None still opens the follow-up
\* window.
RunInputNoneToWindow ==
    /\ pc = "run_input"
    /\ UNCHANGED <<c_posts, c_fallbacks, c_plays, loc, rel, ini, js>>
    /\ IF lfi_result = "wav"
       THEN /\ pc' = "gr_start"
            /\ c_calls' = c_calls + 1
            /\ download' = "none"
            /\ on_disk' = "unchecked"
            /\ playback' = "none"
            /\ remote' = "none"
            /\ fb_entered' = FALSE
            /\ fb_failed' = FALSE
            /\ posts' = 0
            /\ gen_calls' = 0
            /\ el_calls' = 0
            /\ gtts_calls' = 0
            /\ plays' = 0
            /\ payloads' = 0
            /\ response' = NoPayload
            /\ UNCHANGED fallback_ever
       ELSE /\ pc' = IF phase = "first" THEN "after_play" ELSE "verify"
            /\ UNCHANGED <<call, io, c_calls>>
    /\ UNCHANGED <<streams, handles, svc, ctl>>

\* if user_input: / if follow_up_input: a path calls generate_response; None
\* goes back to listen_for_wake_word (first capture) or on to the stream check
\* that ends the cycle (follow-up capture).
RunInput ==
    /\ pc = "run_input"
    /\ UNCHANGED <<c_posts, c_fallbacks, c_plays, loc, rel, ini, js>>
    /\ IF lfi_result = "wav"
       THEN /\ pc' = "gr_start"
            /\ c_calls' = c_calls + 1
            /\ download' = "none"
            /\ on_disk' = "unchecked"
            /\ playback' = "none"
            /\ remote' = "none"
            /\ fb_entered' = FALSE
            /\ fb_failed' = FALSE
            /\ posts' = 0
            /\ gen_calls' = 0
            /\ el_calls' = 0
            /\ gtts_calls' = 0
            /\ plays' = 0
            /\ payloads' = 0
            /\ response' = NoPayload
            /\ UNCHANGED fallback_ever
       ELSE /\ pc' = IF phase = "first" THEN "wake" ELSE "verify"
            /\ UNCHANGED <<call, io, c_calls>>
    /\ UNCHANGED <<streams, handles, svc, ctl>>

(***************************************************************************)
(* generate_response(user_input)                                           *)
(***************************************************************************)
\* return {...}: the payload goes back to run().
GrReturn(p) ==
    /\ response' = p
    /\ payloads' = payloads + 1
    /\ pc' = "run_play"

\* Variant of GrFail: the except clause logs and falls off the end of the
\* function, no payload is returned.
GrFailNoReturn ==
    /\ fb_failed' = TRUE
    /\ UNCHANGED <<response, payloads>>
    /\ pc' = "run_play"

\* except Exception as e: (lines 992-999) the degraded payload.
GrFail ==
    /\ fb_failed' = TRUE
    /\ GrReturn(ErrorPayload)

\* Variant of GrStart: the test of use_api is inverted.
GrStartInverted ==
    /\ pc = "gr_start"
    /\ UNCHANGED <<io, c_calls, c_posts, c_plays, loc, rel, ini, js>>
    /\ IF ~use_api
       THEN /\ pc' = "gr_post"
            /\ UNCHANGED <<fb_entered, fallback_ever, c_fallbacks>>
       ELSE /\ pc' = "gr_fallback"
            /\ fb_entered' = TRUE
            /\ fallback_ever' = TRUE
            /\ c_fallbacks' = c_fallbacks + 1
    /\ UNCHANGED <<remote, fb_failed, posts, gen_calls, el_calls, gtts_calls, plays,
                   payloads, response, streams, handles, svc, ctl>>

\* if self.use_api: the remote branch, else straight into the fallback block.
GrStart ==
    /\ pc = "gr_start"
    /\ UNCHANGED <<io, c_calls, c_posts, c_plays, loc, rel, ini, js>>
    /\ IF use_api
       THEN /\ pc' = "gr_post"
            /\ UNCHANGED <<fb_entered, fallback_ever, c_fallbacks>>
       ELSE /\ pc' = "gr_fallback"
            /\ fb_entered' = TRUE
            /\ fallback_ever' = TRUE
            /\ c_fallbacks' = c_fallbacks + 1
    /\ UNCHANGED <<remote, fb_failed, posts, gen_calls, el_calls, gtts_calls, plays,
                   payloads, response, streams, handles, svc, ctl>>

\* Variant of GrPost: a failure of the remote call is not caught and reaches
\* run().
GrPostPropagates ==
    /\ pc = "gr_post"
    /\ UNCHANGED <<io, c_calls, c_plays, loc, rel, ini, js>>
    /\ \E o \in {"ok"} \cup RemoteFailures :
         /\ remote' = o
         /\ posts' = IF o = "open_failed" THEN posts ELSE posts + 1
         /\ c_posts' = IF o = "open_failed" THEN c_posts ELSE c_posts + 1
         /\ c_fallbacks' = c_fallbacks
         /\ IF o = "ok"
            THEN \/ pc' = "gr_download" /\ UNCHANGED <<payloads, response>>
                 \/ GrReturn(RemotePayload("None"))
            ELSE /\ pc' = "cleanup_stream"
                 /\ UNCHANGED <<payloads, response>>
    /\ UNCHANGED <<fb_entered, fallback_ever, fb_failed, gen_calls, el_calls,
                   gtts_calls, plays, streams, handles, svc, ctl>>

\* Variant of GrPost: a request that raises is sent a second time before the
\* fallback.
GrPostRetries ==
    /\ pc = "gr_post"
    /\ UNCHANGED <<io, c_calls, c_plays, loc, rel, ini, js>>
    /\ \E o \in {"ok"} \cup RemoteFailures :
         /\ remote' = o
         /\ posts' = IF o = "open_failed" THEN posts
                     ELSE IF o = "ok" THEN posts + 1 ELSE posts + 2
         /\ c_posts' = IF o = "open_failed" THEN c_posts
                       ELSE IF o = "ok" THEN c_posts + 1 ELSE c_posts + 2
         /\ IF o = "ok"
            THEN \/ /\ pc' = "gr_download"
                    /\ UNCHANGED <<fb_entered, fallback_ever, c_fallbacks, payloads,
                                   response>>
                 \/ /\ GrReturn(RemotePayload("None"))
                    /\ UNCHANGED <<fb_entered, fallback_ever, c_fallbacks>>
            ELSE /\ pc' = "gr_fallback"
                 /\ fb_entered' = TRUE
                 /\ fallback_ever' = TRUE
                 /\ c_fallbacks' = c_fallbacks + 1
                 /\ UNCHANGED <<payloads, response>>
    /\ UNCHANGED <<fb_failed, gen_calls, el_calls, gtts_calls, plays,
                   streams, handles, svc, ctl>>

\* Variant of GrPost: after a failed remote call the assistant stops using the
\* remote endpoint.
GrPostGivesUp ==
    /\ pc = "gr_post"
    /\ UNCHANGED <<io, c_calls, c_plays, loc, rel, ini, js>>
    /\ \E o \in {"ok"} \cup RemoteFailures :
         /\ remote' = o
         /\ posts' = IF o = "open_failed" THEN posts ELSE posts + 1
         /\ c_posts' = IF o = "open_failed" THEN c_posts ELSE c_posts + 1
         /\ IF o = "ok"
            THEN \/ /\ pc' = "gr_download"
                    /\ UNCHANGED <<fb_entered, fallback_ever, c_fallbacks, payloads,
                                   response>>
                 \/ /\ GrReturn(RemotePayload("None"))
                    /\ UNCHANGED <<fb_entered, fallback_ever, c_fallbacks>>
            ELSE /\ pc' = "gr_fallback"
                 /\ fb_entered' = TRUE
                 /\ fallback_ever' = TRUE
                 /\ c_fallbacks' = c_fallbacks + 1
                 /\ UNCHANGED <<payloads, response>>
    /\ use_api' = (use_api /\ remote' = "ok")
    /\ UNCHANGED <<fb_failed, gen_calls, el_calls, gtts_calls, plays,
                   streams, handles, health, gemini_service, elevenlabs_service, ctl>>

\* The remote try block up to the parsed body: open(user_input, 'rb') may fail
\* before any request; session.post(..., timeout=30) is made once and returns
\* or raises (connection error, timeout); raise_for_status() and
\* response.json() may raise.  Every exception is caught at line 929 and
\* control falls through to the fallback block.
GrPost ==
    /\ pc = "gr_post"
    /\ UNCHANGED <<io, c_calls, c_plays, loc, rel, ini, js>>
    /\ \E o \in {"ok"} \cup RemoteFailures :
         /\ remote' = o
         /\ posts' = IF o = "open_failed" THEN posts ELSE posts + 1
         /\ c_posts' = IF o = "open_failed" THEN c_posts ELSE c_posts + 1
         /\ IF o = "ok"
            THEN \/ /\ pc' = "gr_download"
                    /\ UNCHANGED <<fb_entered, fallback_ever, c_fallbacks, payloads,
                                   response>>
                 \/ /\ GrReturn(RemotePayload("None"))
                    /\ UNCHANGED <<fb_entered, fallback_ever, c_fallbacks>>
            ELSE /\ pc' = "gr_fallback"
                 /\ fb_entered' = TRUE
                 /\ fallback_ever' = TRUE
                 /\ c_fallbacks' = c_fallbacks + 1
                 /\ UNCHANGED <<payloads, response>>
    /\ UNCHANGED <<fb_failed, gen_calls, el_calls, gtts_calls, plays,
                   streams, handles, svc, ctl>>

\* Variant of GrDownload: a failed download discards the remote answer and
\* enters the fallback path.
GrDownloadFallsBack ==
    /\ pc = "gr_download"
    /\ UNCHANGED <<on_disk, playback, c_calls, c_posts, c_plays, loc, rel, ini, js>>
    /\ \E o \in {"ok", "failed", "write_failed"} :
         /\ download' = o
         /\ IF o = "ok"
            THEN /\ GrReturn(RemotePayload("path"))
                 /\ UNCHANGED <<fb_entered, fallback_ever, c_fallbacks>>
            ELSE /\ pc' = "gr_fallback"
                 /\ fb_entered' = TRUE
                 /\ fallback_ever' = TRUE
                 /\ c_fallbacks' = c_fallbacks + 1
                 /\ UNCHANGED <<payloads, response>>
    /\ UNCHANGED <<remote, fb_failed, posts, gen_calls, el_calls, gtts_calls, plays,
                   streams, handles, svc, ctl>>

\* if audio_url: download and save the audio; a failure is logged.  When the
\* get fails audio_file is still None; when open() or write() fails the name
\* has been assigned already and the payload carries the path.
DownloadOutcomes == {"ok", "failed", "write_failed"}

GrDownload ==
    /\ pc = "gr_download"
    /\ UNCHANGED <<on_disk, playback, cyc, loc, rel, ini, js>>
    /\ \E o \in DownloadOutcomes :
         /\ download' = o
         /\ GrReturn(RemotePayload(IF o = "failed" THEN "None" ELSE "path"))
    /\ UNCHANGED <<remote, fb_entered, fb_failed, fallback_ever, posts, gen_calls,
                   el_calls, gtts_calls, plays, streams, handles, svc, ctl>>

\* The imports and, if not hasattr(self, 'gemini_service'), the construction
\* of GeminiService and then ElevenLabsService.
GrFallback ==
    /\ pc = "gr_fallback"
    /\ UNCHANGED <<io, cyc, loc, rel, ini, js>>
    /\ \/ /\ GrFail
          /\ UNCHANGED <<gemini_service, elevenlabs_service>>
       \/ /\ gemini_service
          /\ pc' = "gr_generate"
          /\ UNCHANGED <<gemini_service, elevenlabs_service, fb_failed, payloads, response>>
       \/ /\ ~gemini_service
          /\ \E o \in {"built", "gemini_raises", "elevenlabs_raises"} :
               /\ gemini_service' = (o # "gemini_raises")
               /\ elevenlabs_service' = (elevenlabs_service \/ o = "built")
               /\ IF o = "built"
                  THEN /\ pc' = "gr_generate"
                       /\ UNCHANGED <<fb_failed, payloads, response>>
                  ELSE GrFail
    /\ UNCHANGED <<remote, fb_entered, fallback_ever, posts, gen_calls, el_calls,
                   gtts_calls, plays, use_api, health, streams, handles, ctl>>

\* self.gemini_service.get_response_from_audio(...)
GrGenerate ==
    /\ pc = "gr_generate"
    /\ UNCHANGED <<io, cyc, loc, rel, ini, js>>
    /\ gen_calls' = gen_calls + 1
    /\ \E ok \in BOOLEAN :
         IF ok THEN /\ pc' = "gr_tts"
                    /\ UNCHANGED <<fb_failed, payloads, response>>
               ELSE GrFail
    /\ UNCHANGED <<remote, fb_entered, fallback_ever, posts, el_calls, gtts_calls,
                   plays, streams, handles, svc, ctl>>

\* if self.elevenlabs_service.is_available(): text_to_speech and copy, else
\* gTTS(...).save; the attribute is missing when its construction raised.
GrTts ==
    /\ pc = "gr_tts"
    /\ UNCHANGED <<io, cyc, loc, rel, ini, js>>
    /\ IF ~elevenlabs_service
       THEN /\ GrFail
            /\ UNCHANGED <<el_calls, gtts_calls>>
       ELSE \E engine \in {"elevenlabs", "gtts"}, ok \in BOOLEAN :
              /\ el_calls' = IF engine = "elevenlabs" THEN el_calls + 1 ELSE el_calls
              /\ gtts_calls' = IF engine = "gtts" THEN gtts_calls + 1 ELSE gtts_calls
              /\ IF ok THEN /\ GrReturn(FallbackPayload)
                            /\ UNCHANGED fb_failed
                       ELSE GrFail
    /\ UNCHANGED <<remote, fb_entered, fallback_ever, posts, gen_calls, plays,
                   streams, handles, svc, ctl>>

(***************************************************************************)
(* run(): playback, follow-up, stream check                                *)
(***************************************************************************)
\* Variant of RunPlay: play_audio is called for every payload.
RunPlayAlways ==
    /\ pc = "run_play"
    /\ UNCHANGED <<download, playback, c_calls, c_posts, c_fallbacks, loc, rel, ini, js>>
    /\ on_disk' = on_disk
    /\ plays' = plays + 1
    /\ c_plays' = c_plays + 1
    /\ pc' = "play"
    /\ UNCHANGED <<remote, fb_entered, fb_failed, fallback_ever, posts, gen_calls,
                   el_calls, gtts_calls, payloads, response, streams, handles, svc, ctl>>

\* Variant of RunPlay: play_audio is never called.
RunPlayNever ==
    /\ pc = "run_play"
    /\ UNCHANGED <<download, playback, c_calls, c_posts, c_fallbacks, loc, rel, ini, js>>
    /\ \E exists \in BOOLEAN :
         on_disk' = IF response.audio_file # "path" THEN on_disk
                    ELSE IF exists THEN "yes" ELSE "no"
    /\ plays' = plays
    /\ c_plays' = c_plays
    /\ pc' = "after_play"
    /\ UNCHANGED <<remote, fb_entered, fb_failed, fallback_ever, posts, gen_calls,
                   el_calls, gtts_calls, payloads, response, streams, handles, svc, ctl>>

\* if audio_file and isinstance(audio_file, Path) and audio_file.exists():
\*     self.play_audio(audio_file)
RunPlay ==
    /\ pc = "run_play"
    /\ UNCHANGED <<download, playback, c_calls, c_posts, c_fallbacks, loc, rel, ini, js>>
    /\ IF response.audio_file = "path"
       THEN \E exists \in BOOLEAN :
              /\ on_disk' = IF exists THEN "yes" ELSE "no"
              /\ plays' = IF exists THEN plays + 1 ELSE plays
              /\ c_plays' = IF exists THEN c_plays + 1 ELSE c_plays
              /\ pc' = IF exists THEN "play" ELSE "after_play"
       ELSE /\ on_disk' = on_disk
            /\ plays' = plays
            /\ c_plays' = c_plays
            /\ pc' = "after_play"
    /\ UNCHANGED <<remote, fb_entered, fb_failed, fallback_ever, posts, gen_calls,
                   el_calls, gtts_calls, payloads, response, streams, handles, svc, ctl>>

\* Variant of PlayAudio: the wait for the end of playback never ends.
PlayAudioBlocks ==
    /\ pc = "play"
    /\ UNCHANGED vars

\* play_audio: the file is missing, pygame is absent, playback raises, or
\* playback runs until get_busy() is false; it returns in each case.
PlayAudio ==
    /\ pc = "play"
    /\ UNCHANGED <<download, on_disk, cyc, loc, rel, ini, js>>
    /\ playback' \in {"missing", "no_pygame", "error", "finished"}
    /\ pc' = "after_play"
    /\ UNCHANGED <<streams, handles, svc, ctl, call>>

\* Variant of AfterPlay: no follow-up window, every playback is followed by
\* the stream check.
AfterPlayNoFollowUp ==
    /\ pc = "after_play"
    /\ UNCHANGED <<download, on_disk, cyc, loc, rel, ini, js>>
    /\ playback' = "none"
    /\ pc' = "verify"
    /\ UNCHANGED <<phase, lfi_result, reopen, close_error>>
    /\ UNCHANGED <<cycles, dead_reads, unwinding, exc, streams, handles, svc, call>>

\* Variant of AfterPlay: a follow-up window after every response.
AfterPlayAlwaysFollowUp ==
    /\ pc = "after_play"
    /\ UNCHANGED <<download, on_disk, cyc, loc, rel, ini, js>>
    /\ playback' = "none"
    /\ phase' = "followup"
    /\ lfi_result' = "unset"
    /\ reopen' = "none"
    /\ close_error' = "none"
    /\ pc' = "lfi_stop"
    /\ UNCHANGED <<cycles, dead_reads, unwinding, exc, streams, handles, svc, call>>

\* After the first response run() calls listen_for_input(timeout=4,
\* validate_speech=True); after the follow-up response it goes to the stream
\* check.
AfterPlay ==
    /\ pc = "after_play"
    /\ UNCHANGED <<download, on_disk, cyc, loc, rel, ini, js>>
    /\ playback' = "none"
    /\ IF phase = "first"
       THEN /\ phase' = "followup"
            /\ lfi_result' = "unset"
            /\ reopen' = "none"
            /\ close_error' = "none"
            /\ pc' = "lfi_stop"
       ELSE /\ UNCHANGED <<phase, lfi_result, reopen, close_error>>
            /\ pc' = "verify"
    /\ UNCHANGED <<cycles, dead_reads, unwinding, exc, streams, handles, svc, call>>

\* hasattr(self, 'porcupine_stream') and self.porcupine_stream.is_active():
\* on a stream that is not open the call returns False (a warning is logged)
\* or raises, and the exception reaches run()'s except Exception: raise.
Verify ==
    /\ pc = "verify"
    /\ UNCHANGED <<io, cyc, loc, rel, ini, js>>
    /\ \E raises \in BOOLEAN :
         /\ raises => porcupine_stream # "open"
         /\ IF raises THEN /\ exc' = "error"
                           /\ pc' = "cleanup_stream"
                      ELSE /\ exc' = exc
                           /\ pc' = "wake"
    /\ UNCHANGED <<phase, cycles, dead_reads, lfi_result, reopen, unwinding,
                   close_error, streams, handles, svc, call>>

(***************************************************************************)
(* KeyboardInterrupt and cleanup()                                         *)
(***************************************************************************)
\* Inside listen_for_input's try block the interrupt leaves the with block
\* (closing the capture stream) and runs the finally clause before it reaches
\* run(); anywhere else in the loop it reaches run() directly.
Interrupt ==
    /\ pc \in {"wake", "run_input", "run_play", "play", "after_play", "verify"}
              \cup LfiPcs \cup GrPcs
    /\ IF pc \in {"lfi_mic", "lfi_calibrate", "lfi_listen", "lfi_validate", "lfi_save"}
       THEN /\ unwinding' = TRUE
            /\ mic_open' = FALSE
            /\ exc' = exc
            /\ pc' = "lfi_finally"
       ELSE /\ unwinding' = FALSE
            /\ mic_open' = mic_open
            /\ exc' = "interrupt"
            /\ pc' = "cleanup_stream"
    /\ test_text' = <<>>
    /\ recog' = "none"
    /\ audio_len' = 0
    /\ save' = "none"
    /\ UNCHANGED <<phase, cycles, dead_reads, lfi_result, reopen, close_error,
                   porcupine_stream, orphan_open, handles, svc, call, io, cyc, rel,
                   ini, js>>

\* One step of cleanup(): the release call is made, and when it raises the
\* bare except swallows the exception.
Release(r, ok) ==
    /\ released' = Append(released, r)
    /\ release_failed' = IF ok THEN release_failed ELSE release_failed \cup {r}

\* Variant of CleanupStream: without the try/except an exception of close()
\* leaves cleanup() and the later releases are not made.
CleanupStreamAborts ==
    /\ pc = "cleanup_stream"
    /\ UNCHANGED <<io, cyc, loc, ini, js>>
    /\ \E ok \in BOOLEAN :
         /\ Release("stream", ok)
         /\ porcupine_stream' = IF ok /\ porcupine_stream = "open" THEN "closed"
                                ELSE porcupine_stream
         /\ pc' = IF ok THEN "cleanup_audio" ELSE "done"
    /\ UNCHANGED <<orphan_open, mic_open, handles, svc, ctl, call>>

\* self.porcupine_stream.close() inside try/except: pass
CleanupStream ==
    /\ pc = "cleanup_stream"
    /\ UNCHANGED <<io, cyc, loc, ini, js>>
    /\ \E ok \in BOOLEAN :
         /\ Release("stream", ok)
         /\ porcupine_stream' = IF ok /\ porcupine_stream = "open" THEN "closed"
                                ELSE porcupine_stream
    /\ pc' = "cleanup_audio"
    /\ UNCHANGED <<orphan_open, mic_open, handles, svc, ctl, call>>

\* self.porcupine_audio.terminate() inside try/except: pass; terminate()
\* closes every stream the PyAudio instance still holds.
CleanupAudio ==
    /\ pc = "cleanup_audio"
    /\ UNCHANGED <<io, cyc, loc, ini, js>>
    /\ \E ok \in BOOLEAN :
         /\ Release("audio", ok)
         /\ IF ok THEN /\ porcupine_audio' = "terminated"
                       /\ porcupine_stream' = "closed"
                       /\ orphan_open' = FALSE
                  ELSE UNCHANGED <<porcupine_audio, porcupine_stream, orphan_open>>
    /\ pc' = "cleanup_porcupine"
    /\ UNCHANGED <<porcupine, session, mic_open, svc, ctl, call>>

\* self.porcupine.delete() inside try/except: pass
CleanupPorcupine ==
    /\ pc = "cleanup_porcupine"
    /\ UNCHANGED <<io, cyc, loc, ini, js>>
    /\ \E ok \in BOOLEAN :
         /\ Release("porcupine", ok)
         /\ porcupine' = IF ok THEN "deleted" ELSE porcupine
    /\ pc' = "cleanup_session"
    /\ UNCHANGED <<porcupine_audio, session, streams, svc, ctl, call>>

\* self.session.close() inside try/except: pass; run() returns (interrupt) or
\* re-raises (error).
CleanupSession ==
    /\ pc = "cleanup_session"
    /\ UNCHANGED <<io, cyc, loc, ini, js>>
    /\ \E ok \in BOOLEAN :
         /\ Release("session", ok)
         /\ session' = IF ok THEN "closed" ELSE session
    /\ pc' = "done"
    /\ UNCHANGED <<porcupine, porcupine_audio, streams, svc, ctl, call>>

Startup == InitKey \/ InitResolve \/ InitPorcupine \/ InitStream \/ InitHealth

Loop ==
    \/ WakeDetected \/ WakeError
    \/ LfiStop \/ LfiMic \/ LfiCalibrate \/ LfiListen \/ LfiValidate \/ LfiSave
    \/ LfiFinally \/ RunInput
    \/ GrStart \/ GrPost \/ GrDownload \/ GrFallback \/ GrGenerate \/ GrTts
    \/ RunPlay \/ PlayAudio \/ AfterPlay \/ Verify

Cleanup == CleanupStream \/ CleanupAudio \/ CleanupPorcupine \/ CleanupSession

Next == Startup \/ Loop \/ Interrupt \/ Cleanup

Spec == Init /\ [][Next]_vars

\* The loop without the external interrupt.  The thread is never descheduled
\* for good and every library call of a phase returns or raises (listen has a
\* timeout, the requests have timeouts, playback ends): weak fairness of the
\* loop's steps.
LiveNext == Startup \/ Loop \/ Cleanup

LiveSpec == Init /\ [][LiveNext]_vars /\ WF_vars(LiveNext)

(***************************************************************************)
(* mobile/PicovoiceWakeWord.js: the PicovoiceWakeWordService singleton     *)
(*                                                                         *)
(* A call of an async method runs to its first await in one step; each     *)
(* continuation, run when the awaited promise settles, is one more step.   *)
(* tk[t] is the call caller t made last: its method and where it stands.   *)
(***************************************************************************)
Free(t) == tk[t].at \in {"idle", "resolved", "rejected"}

At(t, m, at) == tk[t] = [m |-> m, at |-> at]

Goto(t, m, at) == tk' = [tk EXCEPT ![t] = [m |-> m, at |-> at]]

\* initialize(): accessKey and the callback are stored, Picovoice.create is
\* called and awaited.
InitializeCall(t) ==
    /\ Free(t)
    /\ Goto(t, "initialize", "create")
    /\ UNCHANGED <<picovoice, isListening, vp_starts, py, av>>

\* Picovoice.create settles: the handle is stored and initialize() returns
\* true, or the error is logged and thrown again.
InitializeSettle(t) ==
    /\ At(t, "initialize", "create")
    /\ \E ok \in BOOLEAN :
         IF ok THEN /\ picovoice' = "live"
                    /\ Goto(t, "initialize", "resolved")
               ELSE /\ picovoice' = picovoice
                    /\ Goto(t, "initialize", "rejected")
    /\ UNCHANGED <<isListening, vp_starts, py, av>>

\* start(): throws without a handle, returns when isListening, otherwise
\* calls VoiceProcessor.start and awaits it.
StartCall(t) ==
    /\ Free(t)
    /\ IF picovoice = "null"
       THEN /\ Goto(t, "start", "rejected")
            /\ vp_starts' = vp_starts
       ELSE IF isListening
       THEN /\ Goto(t, "start", "resolved")
            /\ vp_starts' = vp_starts
       ELSE /\ Goto(t, "start", "vp_start")
            /\ vp_starts' = vp_starts + 1
    /\ UNCHANGED <<picovoice, isListening, py, av>>

\* VoiceProcessor.start settles: isListening = true, or the error is logged
\* and thrown again.
StartSettle(t) ==
    /\ At(t, "start", "vp_start")
    /\ \E ok \in BOOLEAN :
         IF ok THEN /\ isListening' = TRUE
                    /\ vp_starts' = vp_starts
                    /\ Goto(t, "start", "resolved")
               ELSE /\ isListening' = isListening
                    /\ vp_starts' = (IF vp_starts > 0 THEN vp_starts - 1 ELSE 0)
                    /\ Goto(t, "start", "rejected")
    /\ UNCHANGED <<picovoice, py, av>>

\* stop(): returns when not listening, otherwise calls VoiceProcessor.stop
\* and awaits it.
StopCall(t) ==
    /\ Free(t)
    /\ IF ~isListening
       THEN /\ Goto(t, "stop", "resolved")
            /\ vp_starts' = vp_starts
       ELSE /\ Goto(t, "stop", "vp_stop")
            /\ vp_starts' = 0
    /\ UNCHANGED <<picovoice, isListening, py, av>>

\* VoiceProcessor.stop settles: isListening = false, or the error is logged
\* and thrown again.
StopSettle(t) ==
    /\ At(t, "stop", "vp_stop")
    /\ \E ok \in BOOLEAN :
         IF ok THEN /\ isListening' = FALSE
                    /\ Goto(t, "stop", "resolved")
               ELSE /\ isListening' = isListening
                    /\ Goto(t, "stop", "rejected")
    /\ UNCHANGED <<picovoice, vp_starts, py, av>>

\* release(): when listening it calls stop() (which calls VoiceProcessor.stop)
\* and awaits it; when not listening it goes on at once to delete the handle
\* and resolves.
ReleaseCall(t) ==
    /\ Free(t)
    /\ IF isListening
       THEN /\ Goto(t, "release", "rel_stop")
            /\ vp_starts' = 0
            /\ picovoice' = picovoice
       ELSE /\ Goto(t, "release", "resolved")
            /\ vp_starts' = vp_starts
            /\ picovoice' = "null"
    /\ UNCHANGED <<isListening, py, av>>

\* The VoiceProcessor.stop awaited inside release() settles: stop() sets
\* isListening = false and release() goes on; or stop() throws, release()'s
\* catch logs the error and release() resolves.
ReleaseStopSettle(t) ==
    /\ At(t, "release", "rel_stop")
    /\ \E ok \in BOOLEAN :
         IF ok THEN /\ isListening' = FALSE
                    /\ Goto(t, "release", "rel_delete")
               ELSE /\ isListening' = isListening
                    /\ Goto(t, "release", "resolved")
    /\ UNCHANGED <<picovoice, vp_starts, py, av>>

\* release() after the awaited stop(): picovoice.delete(), picovoice = null.
ReleaseDelete(t) ==
    /\ At(t, "release", "rel_delete")
    /\ picovoice' = "null"
    /\ Goto(t, "release", "resolved")
    /\ UNCHANGED <<isListening, vp_starts, py, av>>

\* isAvailable()
isAvailable == picovoice # "null"

\* The settling of the promises the service awaits.
ServiceSettle ==
    \/ \E t \in Tasks : InitializeSettle(t) /\ UNCHANGED ar
    \/ \E t \in Tasks : StartSettle(t) /\ UNCHANGED ar
    \/ \E t \in Tasks : StopSettle(t) /\ UNCHANGED ar
    \/ \E t \in Tasks : ReleaseStopSettle(t) /\ UNCHANGED ar
    \/ \E t \in Tasks : ReleaseDelete(t) /\ UNCHANGED ar

\* Any caller that has no call in progress calls any method of the service.
ServiceCall ==
    \/ \E t \in Tasks : InitializeCall(t) /\ UNCHANGED ar
    \/ \E t \in Tasks : StartCall(t) /\ UNCHANGED ar
    \/ \E t \in Tasks : StopCall(t) /\ UNCHANGED ar
    \/ \E t \in Tasks : ReleaseCall(t) /\ UNCHANGED ar

ServiceNext == ServiceCall \/ ServiceSettle

ServiceSpec == Init /\ [][ServiceNext]_vars

(***************************************************************************)
(* mobile/ARPlaceholder.js                                                 *)
(*                                                                         *)
(* The mount effect's wake-word block is caller 1 of the service, the      *)
(* unmount cleanup is caller 2.  A state setter of a component that has    *)
(* unmounted changes nothing.                                              *)
(***************************************************************************)
Effect == 1

CleanupCaller == 2

\* The calls of handleAskQuestion in progress.
InFlight == {a \in Asks : ask[a] # "idle"}

\* The component mounts: the effect starts the camera permission request and,
\* when the configuration has an access key, calls
\* picovoiceService.initialize(key, handleWakeWordDetected) and awaits it.
ArMount ==
    /\ mounted = "no"
    /\ mounted' = "yes"
    /\ \E key \in BOOLEAN :
         IF key THEN /\ InitializeCall(Effect)
                     /\ iife' = "await_initialize"
                ELSE /\ iife' = "done"
                     /\ UNCHANGED <<sv, py, av>>
    /\ UNCHANGED <<hasPermission, isListeningForWakeWord, ar_isLoading, ask, timers>>

\* Camera.requestCameraPermissionsAsync() settles, for the request of the
\* mount effect or for one made with the Grant Permission button:
\* setHasPermission(status === 'granted').
PermissionSettle ==
    /\ mounted = "yes"
    /\ hasPermission \in {"null", "denied"}
    /\ hasPermission' \in {"granted", "denied"}
    /\ UNCHANGED <<mounted, iife, isListeningForWakeWord, ar_isLoading, ask, timers,
                   sv, py, av>>

\* The effect's block after await picovoiceService.initialize(...): it calls
\* picovoiceService.start() and awaits it; a rejection goes to the catch.
IifeAfterInitialize ==
    /\ iife = "await_initialize"
    /\ \/ /\ At(Effect, "initialize", "resolved")
          /\ StartCall(Effect)
          /\ iife' = "await_start"
       \/ /\ At(Effect, "initialize", "rejected")
          /\ iife' = "done"
          /\ UNCHANGED <<sv, py, av>>
    /\ UNCHANGED <<mounted, hasPermission, isListeningForWakeWord, ar_isLoading, ask,
                   timers>>

\* The effect's block after await picovoiceService.start():
\* setIsListeningForWakeWord(true); a rejection goes to the catch.
IifeAfterStart ==
    /\ iife = "await_start"
    /\ Free(Effect)
    /\ isListeningForWakeWord' =
          (IF At(Effect, "start", "resolved") /\ mounted = "yes"
           THEN TRUE ELSE isListeningForWakeWord)
    /\ iife' = "done"
    /\ UNCHANGED <<mounted, hasPermission, ar_isLoading, ask, timers, sv, py, av>>

\* The component unmounts: the effect's cleanup calls
\* picovoiceService.release() and does not await it.
ArUnmount ==
    /\ mounted = "yes"
    /\ mounted' = "gone"
    /\ ReleaseCall(CleanupCaller)
    /\ UNCHANGED <<iife, hasPermission, isListeningForWakeWord, ar_isLoading, ask,
                   timers>>

\* The voice processor delivers frames in which Picovoice finds the wake
\* word: onWakeWordCallback calls handleWakeWordDetected, which schedules
\* handleAskQuestion with setTimeout(..., 2000).
WakeWord ==
    /\ isListening
    /\ picovoice = "live"
    /\ timers < MaxTimers
    /\ timers' = timers + 1
    /\ UNCHANGED <<mounted, iife, hasPermission, isListeningForWakeWord, ar_isLoading,
                   ask, sv, py, av>>

\* handleAskQuestion to its first await: setIsLoading(true), askQuestion(...)
\* is called.
AskCall(a) ==
    /\ ask[a] = "idle"
    /\ ask' = [ask EXCEPT ![a] = "request"]
    /\ ar_isLoading' = (IF mounted = "yes" THEN TRUE ELSE ar_isLoading)

\* The timer of a wake-word detection fires: handleAskQuestion() is called.
TimerFires ==
    /\ timers > 0
    /\ timers' = timers - 1
    /\ \E a \in Asks : AskCall(a)
    /\ UNCHANGED <<mounted, iife, hasPermission, isListeningForWakeWord, sv, py, av>>

\* The Ask button, rendered with the camera view and disabled while
\* isLoading, is pressed: handleAskQuestion() is called.
AskPress ==
    /\ mounted = "yes"
    /\ hasPermission = "granted"
    /\ ~ar_isLoading
    /\ \E a \in Asks : AskCall(a)
    /\ UNCHANGED <<mounted, iife, hasPermission, isListeningForWakeWord, timers,
                   sv, py, av>>

\* finally { setIsLoading(false) }: the call of handleAskQuestion ends.
AskEnds(a) ==
    /\ ask' = [ask EXCEPT ![a] = "idle"]
    /\ ar_isLoading' = (IF mounted = "yes" THEN FALSE ELSE ar_isLoading)

\* askQuestion settles: the response is shown and playAudioResponse awaits
\* Audio.Sound.createAsync; or the error is alerted and the call ends.
AskResponse ==
    /\ \E a \in Asks :
         /\ ask[a] = "request"
         /\ \E ok \in BOOLEAN :
              IF ok THEN /\ ask' = [ask EXCEPT ![a] = "create_sound"]
                         /\ ar_isLoading' = ar_isLoading
                    ELSE AskEnds(a)
    /\ UNCHANGED <<mounted, iife, hasPermission, isListeningForWakeWord, timers,
                   sv, py, av>>

\* Audio.Sound.createAsync settles: playback has started and its end is
\* awaited; or playAudioResponse alerts the error and returns.
AskSoundCreated ==
    /\ \E a \in Asks :
         /\ ask[a] = "create_sound"
         /\ \E ok \in BOOLEAN :
              IF ok THEN /\ ask' = [ask EXCEPT ![a] = "playing"]
                         /\ ar_isLoading' = ar_isLoading
                    ELSE AskEnds(a)
    /\ UNCHANGED <<mounted, iife, hasPermission, isListeningForWakeWord, timers,
                   sv, py, av>>

\* The playback status update with didJustFinish arrives.
AskPlaybackFinished ==
    /\ \E a \in Asks :
         /\ ask[a] = "playing"
         /\ AskEnds(a)
    /\ UNCHANGED <<mounted, iife, hasPermission, isListeningForWakeWord, timers,
                   sv, py, av>>

\* The promises the service awaits for the component's calls settle.
ArSettle ==
    \/ InitializeSettle(Effect) /\ UNCHANGED ar
    \/ StartSettle(Effect) /\ UNCHANGED ar
    \/ ReleaseStopSettle(CleanupCaller) /\ UNCHANGED ar
    \/ ReleaseDelete(CleanupCaller) /\ UNCHANGED ar

ArNext ==
    \/ ArMount \/ PermissionSettle \/ IifeAfterInitialize \/ IifeAfterStart
    \/ ArUnmount \/ ArSettle
    \/ WakeWord \/ TimerFires \/ AskPress
    \/ AskResponse \/ AskSoundCreated \/ AskPlaybackFinished

ArSpec == Init /\ [][ArNext]_vars

(***************************************************************************)
(* avatar-web/src/components/AvatarScreen.jsx                              *)
(*                                                                         *)
(* ws is the state of the socket connect() created last: "connecting",     *)
(* "open", "closing" (its close event is still to come, after an error or  *)
(* after close()), "closed".  Messages on the open socket change none of   *)
(* the variables here and are stuttering steps.                            *)
(***************************************************************************)
\* testConnection(), called by the mount effect: testHeyGen() answers that
\* HeyGen is not available and setError(...) is called.
AvTestUnavailable ==
    /\ av_connects = 0
    /\ av_error = "null"
    /\ av_error' = "heygen"
    /\ UNCHANGED <<av_isLoading, av_isConnected, av_connect, ws, ws_ref, ws_errors,
                   av_connects, sv, ar, py>>

\* The Start button (shown when not connected, disabled while isLoading) is
\* clicked: connect() runs to await createHeyGenSession(...).
AvConnect ==
    /\ ~av_isConnected
    /\ ~av_isLoading
    /\ av_connect = "idle"
    /\ av_connects < MaxConnects
    /\ av_connects' = av_connects + 1
    /\ av_isLoading' = TRUE
    /\ av_error' = "null"
    /\ av_connect' = "creating"
    /\ UNCHANGED <<av_isConnected, ws, ws_ref, ws_errors, sv, ar, py>>

\* createHeyGenSession settles.  A rejection, an unsuccessful response, a
\* response without session or without endpoint, and a WebSocket constructor
\* that throws all reach connect()'s catch; a session with an SDP offer goes
\* to the WebRTC handshake; otherwise the WebSocket is created, stored in
\* websocketRef and given its handlers.
AvSession ==
    /\ av_connect = "creating"
    /\ \E o \in {"failed", "sdp", "websocket"} :
         /\ av_connect' = (IF o = "sdp" THEN "webrtc" ELSE "idle")
         /\ av_error' = (IF o = "failed" THEN "connect" ELSE av_error)
         /\ av_isLoading' = (IF o = "failed" THEN FALSE ELSE av_isLoading)
         /\ ws' = (IF o = "websocket" THEN "connecting" ELSE ws)
         /\ ws_ref' = (IF o = "websocket" THEN TRUE ELSE ws_ref)
    /\ UNCHANGED <<av_isConnected, ws_errors, av_connects, sv, ar, py>>

\* handleWebRTCHandshake and the handlers of its peer connection: the stream
\* plays (connected), or the handshake or the connection fails.
AvWebRtc ==
    /\ av_connect = "webrtc"
    /\ \E ok \in BOOLEAN :
         /\ av_isConnected' = (IF ok THEN TRUE ELSE av_isConnected)
         /\ av_error' = (IF ok THEN "null" ELSE "webrtc")
    /\ av_isLoading' = FALSE
    /\ av_connect' = "idle"
    /\ UNCHANGED <<ws, ws_ref, ws_errors, av_connects, sv, ar, py>>

\* ws.onopen: setIsConnected(true), setIsLoading(false).
WsOpen ==
    /\ ws = "connecting"
    /\ ws' = "open"
    /\ av_isConnected' = TRUE
    /\ av_isLoading' = FALSE
    /\ UNCHANGED <<av_error, av_connect, ws_ref, ws_errors, av_connects, sv, ar, py>>

\* ws.onerror: the fourth console.error reads the identifier websocket_url,
\* which is declared nowhere, so the handler throws a ReferenceError before
\* setError, setIsConnected(false) and setIsLoading(false).  The close event
\* of the socket follows.
WsError ==
    /\ ws \in {"connecting", "open"}
    /\ ws' = "closing"
    /\ ws_errors' = ws_errors + 1
    /\ UNCHANGED <<av_isLoading, av_isConnected, av_error, av_connect, ws_ref,
                   av_connects, sv, ar, py>>

\* ws.onclose: setIsConnected(false).  The socket is closed by the server,
\* after an error, or after close().
WsClose ==
    /\ ws \in {"open", "closing"}
    /\ ws' = "closed"
    /\ av_isConnected' = FALSE
    /\ UNCHANGED <<av_isLoading, av_error, av_connect, ws_ref, ws_errors, av_connects,
                   sv, ar, py>>

\* The Disconnect button (shown when connected): disconnect() closes the
\* session, the socket and the peer connection, and calls
\* setIsConnected(false).
AvDisconnect ==
    /\ av_isConnected
    /\ ws' = (IF ws_ref /\ ws \in {"connecting", "open"} THEN "closing" ELSE ws)
    /\ ws_ref' = FALSE
    /\ av_isConnected' = FALSE
    /\ UNCHANGED <<av_isLoading, av_error, av_connect, ws_errors, av_connects,
                   sv, ar, py>>

AvatarNext ==
    \/ AvTestUnavailable \/ AvConnect \/ AvSession \/ AvWebRtc
    \/ WsOpen \/ WsError \/ WsClose \/ AvDisconnect

AvatarSpec == Init /\ [][AvatarNext]_vars

(***************************************************************************)
(* Properties                                                              *)
(***************************************************************************)
InCycle ==
    pc \in LfiPcs \cup GrPcs \cup {"run_input", "run_play", "play", "after_play", "verify"}

AfterCallPcs == {"run_play", "play", "after_play"}

\* C1: microphone mutual exclusion: in every reachable state at most one of
\* the spotter stream (referenced or left behind) and the capture stream is
\* open, also in cycles in which stop_stream()/close() raised.
C1_MutualExclusion ==
    ~(mic_open /\ (porcupine_stream = "open" \/ orphan_open))

C3_Original == InCycle ~> (pc = "wake")

\* C3 (amended): from every state of a cycle the loop eventually is back at
\* listen_for_wake_word, or run() has ended through cleanup() because the
\* stream check raised; no phase waits for ever.
C3_Amended == InCycle ~> (pc = "wake" \/ pc = "done")

C3_Witness ==
    pc = "wake" /\ cycles > 0 /\ phase = "followup" /\ plays = 1

\* C4: the spotter stream is closed throughout the Capturing phase (from the
\* calibration until listen_for_input has its result).
C4_SpotterClosedWhileCapturing ==
    pc \in CapturingPcs => (porcupine_stream # "open" /\ ~orphan_open)

\* C5 (as claimed): while generate_response runs no microphone stream is open,
\* neither the capture stream nor the spotter stream.
C5_Original ==
    pc \in GrPcs => (~mic_open /\ porcupine_stream # "open" /\ ~orphan_open)

\* C5 (amended): while generate_response runs the capture stream is closed;
\* the reopen of the spotter stream has already been attempted by the finally
\* clause of listen_for_input, and the spotter stream is open throughout the
\* call when that reopen succeeded.
C5_Amended ==
    pc \in GrPcs =>
        /\ ~mic_open
        /\ reopen # "none"
        /\ reopen = "ok" => porcupine_stream = "open"

C5_Witness ==
    pc = "gr_post" /\ ~mic_open /\ reopen = "ok" /\ porcupine_stream = "open"

\* C6: every step in which the remote call of generate_response fails
\* (request not sent, connection error, timeout, non-2xx status, unparsable
\* body) goes on to the fallback block of the same call; it never leaves
\* generate_response towards run().
C6_RemoteFailureCaught ==
    [][(pc = "gr_post" /\ remote' \in RemoteFailures)
          => (pc' = "gr_fallback" /\ fb_entered' /\ exc' = exc)]_vars

C6_Witness ==
    pc = "gr_fallback" /\ remote = "timeout" /\ fb_entered

\* C7: a generate_response call that has returned has returned exactly one
\* payload with the fields text, audio_file, emotion, response_time; when an
\* exception was raised inside the fallback block the payload is the degraded
\* one (emotion 'error', apologetic text, no audio).
C7_OnePayload ==
    /\ pc \in GrPcs => payloads = 0
    /\ pc \in AfterCallPcs =>
          /\ payloads = 1
          /\ response # NoPayload
          /\ DOMAIN response = {"text", "audio_file", "emotion", "response_time"}
          /\ fb_failed =>
                /\ response.emotion = "error"
                /\ response.text = "sorry"
                /\ response.audio_file = "None"

C7_Witness ==
    pc = "run_play" /\ fb_failed /\ response.emotion = "error" /\ payloads = 1

\* C8 (as claimed): the fallback block is entered only after a failed POST to
\* /api/ask in the same call.
C8_Original ==
    fb_entered => (posts = 1 /\ remote \in RemoteFailures)

\* C8 (amended): the fallback block is entered only if use_api is false (no
\* remote call is attempted then) or the remote branch of the same call raised.
C8_Amended ==
    fb_entered => (~use_api \/ remote \in RemoteFailures)

C8_Witness ==
    pc = "gr_fallback" /\ fb_entered /\ use_api /\ remote = "neterr" /\ posts = 1

\* C9: Scenario C: in a call whose remote request raises a network error the
\* endpoint is requested exactly once and each fallback service at most once;
\* when the fallback pipeline then produces its payload and playback occurs
\* (the synthesized file is on disk when run() looks for it), the generation
\* service and exactly one synthesis engine have been invoked exactly once,
\* the payload carries audio and has been played once, and no exception has
\* reached run().
C9_ScenarioC ==
    /\ remote = "neterr" =>
          /\ posts = 1
          /\ gen_calls <= 1
          /\ el_calls + gtts_calls <= 1
    /\ (pc = "after_play" /\ remote = "neterr" /\ ~fb_failed /\ on_disk = "yes") =>
          /\ gen_calls = 1
          /\ el_calls + gtts_calls = 1
          /\ payloads = 1
          /\ response.audio_file = "path"
          /\ plays = 1
          /\ exc = "none"

C9_Witness ==
    pc = "after_play" /\ remote = "neterr" /\ ~fb_failed /\ plays = 1 /\ gen_calls = 1

\* C10 (as claimed): as long as no generate_response call has entered the
\* fallback block, no fallback service has been constructed.
C10_Original ==
    ~fallback_ever => (~gemini_service /\ ~elevenlabs_service)

\* C10 (amended): when the startup health check did not raise, no fallback
\* service is constructed before the first generate_response call that enters
\* the fallback block.
C10_Amended ==
    (~fallback_ever /\ health # "exception") => (~gemini_service /\ ~elevenlabs_service)

C10_Witness ==
    health = "status" /\ pc = "gr_generate" /\ gemini_service /\ elevenlabs_service

(***************************************************************************)
(* The session loop: playback, follow-up window, end of cycle              *)
(***************************************************************************)
\* C11 as stated: for every payload returned by generate_response, the
\* degraded one and the remote one without audio included, play_audio has
\* been invoked when run() moves on from the playback step.
C11_Original ==
    pc = "after_play" => plays = 1

\* C11: when run() moves on from the playback step, play_audio has been
\* invoked once if the payload names an audio file that is on disk, and not
\* at all otherwise: the degraded payload (emotion 'error') and the remote
\* payload whose audio could not be fetched are not played, and a payload
\* whose audio was fetched and written, or synthesized, is played when the
\* file is there.
C11_Amended ==
    pc = "after_play" =>
        /\ plays = (IF response.audio_file = "path" /\ on_disk = "yes" THEN 1 ELSE 0)
        /\ response.emotion = "error" => plays = 0
        /\ download = "failed" => plays = 0
        /\ (on_disk = "yes" /\ (download = "ok" \/ response = FallbackPayload))
              => plays = 1

C11_Witness ==
    pc = "after_play" /\ response.emotion = "error" /\ plays = 0 /\ payloads = 1

\* C12 as stated: every step of run() that leaves the playback step, after
\* the first response and after the follow-up response alike, enters the
\* follow-up window (an interrupt apart).
C12_Original ==
    [][(pc = "after_play" /\ exc' = "none")
          => (pc' = "lfi_stop" /\ phase' = "followup")]_vars

\* C12: after the playback step of the first response run() enters the
\* follow-up window, listen_for_input(timeout=4, validate_speech=True); after
\* the playback step of the follow-up response it goes to the stream check
\* that ends the cycle, with no further follow-up window (an interrupt apart).
C12_Amended ==
    [][(pc = "after_play" /\ exc' = "none")
          => IF phase = "first"
             THEN pc' = "lfi_stop" /\ phase' = "followup"
             ELSE pc' = "verify" /\ phase' = "followup"]_vars

C12_Witness ==
    pc = "verify" /\ phase = "followup" /\ lfi_result = "wav" /\ c_calls = 2

\* C13 as stated: in the follow-up window generate_response is called again
\* if and only if the capture returned a path; when it returned None no call
\* is made and the loop goes through the stream check back to the wake-word
\* listener (an interrupt apart).
C13_Original ==
    [][/\ (pc = "run_input" /\ phase = "followup" /\ exc' = "none")
            => /\ (pc' = "gr_start") <=> (lfi_result = "wav")
               /\ c_calls' = (IF lfi_result = "wav" THEN c_calls + 1 ELSE c_calls)
               /\ lfi_result = "None" => pc' = "verify"
       /\ (pc = "verify" /\ lfi_result = "None" /\ exc' # "interrupt")
            => pc' = "wake" /\ c_calls' = 1]_vars

\* C13: in the follow-up window generate_response is called again if and
\* only if the capture returned a path; when it returned None no call is made
\* and the loop goes to the stream check, which returns it to the wake-word
\* listener unless the spotter stream is not open (the reopen failed) and
\* is_active() raises: then the exception ends run() through cleanup().
C13_Amended ==
    [][/\ (pc = "run_input" /\ phase = "followup" /\ exc' = "none")
            => /\ (pc' = "gr_start") <=> (lfi_result = "wav")
               /\ c_calls' = (IF lfi_result = "wav" THEN c_calls + 1 ELSE c_calls)
               /\ lfi_result = "None" => pc' = "verify"
       /\ (pc = "verify" /\ lfi_result = "None" /\ exc' # "interrupt")
            => /\ c_calls' = 1
               /\ \/ pc' = "wake"
                  \/ /\ porcupine_stream # "open"
                     /\ exc' = "error"
                     /\ pc' = "cleanup_stream"]_vars

C13_Witness ==
    pc = "wake" /\ phase = "followup" /\ lfi_result = "None" /\ c_calls = 1
        /\ exc = "none"

\* C14: when the capture that follows a wake-word detection returns None,
\* run() goes straight back to the wake-word listener: in that cycle there is
\* no generate_response call, no POST, no fallback, no playback and no
\* follow-up window (an interrupt apart).
C14_NoneAfterWake ==
    [][(pc = "run_input" /\ phase = "first" /\ lfi_result = "None" /\ exc' = "none")
          => /\ pc' = "wake"
             /\ phase' = "first"
             /\ c_calls' = 0
             /\ c_posts' = 0
             /\ c_fallbacks' = 0
             /\ c_plays' = 0]_vars

C14_Witness ==
    pc = "wake" /\ cycles >= 1 /\ phase = "first" /\ lfi_result = "None"
        /\ c_calls = 0 /\ c_posts = 0 /\ c_plays = 0

\* The cycle of Scenario A at its stream check: one response, obtained from
\* the remote endpoint with its audio downloaded and on disk, and a follow-up
\* capture that returned None.
ScenarioA ==
    /\ pc = "verify"
    /\ lfi_result = "None"
    /\ c_calls = 1
    /\ remote = "ok"
    /\ download = "ok"
    /\ on_disk = "yes"

\* C15 as stated: the cycle of Scenario A has made exactly one play_audio
\* call and exactly one POST, and its stream check leads back to the
\* wake-word listener (an interrupt apart).
C15_Original ==
    [][(ScenarioA /\ exc' # "interrupt")
          => /\ c_plays = 1
             /\ c_posts = 1
             /\ c_fallbacks = 0
             /\ pc' = "wake"]_vars

\* C15: the cycle of Scenario A has made exactly one play_audio call and
\* exactly one POST, and its stream check leads back to the wake-word
\* listener when the spotter stream is open; when a reopen failed and
\* is_active() raises on the stream, run() ends through cleanup() instead.
C15_Amended ==
    [][(ScenarioA /\ exc' # "interrupt")
          => /\ c_plays = 1
             /\ c_posts = 1
             /\ c_fallbacks = 0
             /\ porcupine_stream = "open" => pc' = "wake"
             /\ pc' # "wake" => (exc' = "error" /\ pc' = "cleanup_stream")]_vars

C15_Witness ==
    /\ pc = "wake"
    /\ phase = "followup"
    /\ lfi_result = "None"
    /\ remote = "ok"
    /\ download = "ok"
    /\ c_plays = 1
    /\ c_posts = 1
    /\ porcupine_stream = "open"

(***************************************************************************)
(* Interrupt and teardown                                                  *)
(***************************************************************************)
\* C16: after an interrupt, wherever in the loop it arrived, cleanup() has
\* run once, making the four releases once each in the order spotter stream,
\* PyAudio instance, Porcupine handle, HTTP session, the capture stream
\* having been closed before them by its with block; every release is
\* attempted whether or not an earlier one raised, and each one that did not
\* raise has taken effect: no audio stream open after terminate(), the handle
\* deleted, the session closed.
C16_Teardown ==
    /\ (pc \in {"cleanup_stream", "cleanup_audio", "cleanup_porcupine",
                "cleanup_session", "done"} /\ exc = "interrupt") => ~mic_open
    /\ (pc = "done" /\ exc = "interrupt") =>
          /\ released = <<"stream", "audio", "porcupine", "session">>
          /\ "stream" \notin release_failed => porcupine_stream # "open"
          /\ "audio" \notin release_failed =>
                (porcupine_stream # "open" /\ ~orphan_open
                    /\ porcupine_audio = "terminated")
          /\ "porcupine" \notin release_failed => porcupine = "deleted"
          /\ "session" \notin release_failed => session = "closed"

C16_Witness ==
    /\ pc = "done"
    /\ exc = "interrupt"
    /\ release_failed = {"stream"}
    /\ porcupine = "deleted"
    /\ session = "closed"
    /\ ~orphan_open

\* C17: once a reopen has failed and left the spotter stream not open, run()
\* makes no further detection attempt on it: the failure ends the cycle as
\* fatal instead of returning to listen_for_wake_word.
C17_FailedReopenFatal ==
    [][(pc = "wake" /\ reopen = "failed" /\ porcupine_stream # "open")
          => pc' # "wake"]_vars

(***************************************************************************)
(* listen_for_input: the checks on the capture                             *)
(***************************************************************************)
\* C18: a capture that reaches the size check is rejected there exactly when
\* its WAV data is shorter than 10000 bytes: 9999 bytes returns None, 10000
\* bytes passes, and the path is returned whenever the artifact passed and
\* was written.
C18_SizeBoundary ==
    save # "none" =>
        /\ pc = "lfi_finally"
        /\ (save = "too_short") <=> (audio_len < 10000)
        /\ audio_len = 9999 => lfi_result = "None"
        /\ (audio_len >= 10000 /\ save = "written") => lfi_result = "wav"
        /\ lfi_result = "wav" => (audio_len >= 10000 /\ save = "written")

C18_Witness ==
    save = "written" /\ audio_len = 10000 /\ lfi_result = "wav"

\* The length of a text without its leading and trailing blanks.
TrimmedLen(t) ==
    LET solid == {i \in 1..Len(t) : t[i] # " "}
    IN  IF solid = {} THEN 0
        ELSE (CHOOSE j \in solid : \A i \in solid : i <= j)
                 - (CHOOSE j \in solid : \A i \in solid : j <= i) + 1

\* C19: the recognition pass runs only when validate_speech is true; the
\* capture is rejected with None when the pass raises or when the decoded
\* text, trimmed of blanks, is shorter than 3 (empty, or 2 characters), and
\* passes on to the size check when the trimmed text has 3 characters or
\* more.
C19_SpeechValidation ==
    /\ recog # "none" => validate_speech
    /\ recog \in {"unknown_value", "request_error", "error"} =>
          (pc = "lfi_finally" /\ lfi_result = "None" /\ save = "none")
    /\ recog = "text" =>
          /\ (TrimmedLen(test_text) < 3) <=>
                (pc = "lfi_finally" /\ lfi_result = "None" /\ save = "none")
          /\ TrimmedLen(test_text) >= 3 => (pc = "lfi_save" /\ lfi_result = "unset")
    /\ (pc \in {"lfi_validate", "lfi_save"} /\ ~validate_speech) => pc = "lfi_save"

C19_Witness ==
    /\ recog = "text"
    /\ validate_speech
    /\ TrimmedLen(test_text) = 3
    /\ pc = "lfi_save"

(***************************************************************************)
(* Failures around the audio artifact                                      *)
(***************************************************************************)
\* The playback step ends with the artifact missing or not downloaded.
ArtifactFailure ==
    /\ pc = "after_play"
    /\ \/ download \in {"failed", "write_failed"}
       \/ on_disk = "no"
       \/ playback = "missing"

\* C20 as stated: after a failed download or a missing artifact the remote
\* text is kept, the fallback path is not entered, nothing is raised, and the
\* loop goes on to the follow-up window (an interrupt apart).
C20_Original ==
    [][(ArtifactFailure /\ exc' = "none")
          => /\ download = "failed" =>
                    (response = RemotePayload("None") /\ ~fb_entered /\ plays = 0)
             /\ download = "write_failed" =>
                    (response = RemotePayload("path") /\ ~fb_entered)
             /\ pc' = "lfi_stop"
             /\ phase' = "followup"]_vars

\* C20: after a failed download or a missing artifact the remote text is
\* kept, the fallback path is not entered, play_audio has returned, nothing
\* is raised, and the loop goes on: to the follow-up window after the first
\* response, to the stream check that ends the cycle after the follow-up
\* response.
C20_Amended ==
    [][(ArtifactFailure /\ exc' = "none")
          => /\ download = "failed" =>
                    (response = RemotePayload("None") /\ ~fb_entered /\ plays = 0)
             /\ download = "write_failed" =>
                    (response = RemotePayload("path") /\ ~fb_entered)
             /\ exc = "none"
             /\ IF phase = "first"
                THEN pc' = "lfi_stop" /\ phase' = "followup"
                ELSE pc' = "verify"]_vars

C20_Witness ==
    /\ pc = "lfi_stop"
    /\ phase = "followup"
    /\ download = "failed"
    /\ response = RemotePayload("None")
    /\ ~fb_entered
    /\ plays = 0

(***************************************************************************)
(* Startup model resolution                                                *)
(***************************************************************************)

\* The positions of the candidates that exist and do not name a wasm target.
Compatible(variants, existing) ==
    {i \in 1..Len(ModelPaths(variants)) :
        /\ ModelPaths(variants)[i] \in existing
        /\ ModelPaths(variants)[i].target # "wasm"}

\* The model resolution has run and its values are still held.
Resolved == platform_variants # <<>>

\* The selection rule: the path found is the compatible candidate of least
\* position, or none when there is no compatible candidate; what a successful
\* create was given never names a wasm target.
C21_Selection ==
    /\ Resolved =>
          IF Compatible(platform_variants, files) = {}
          THEN keyword_path = NoPath
          ELSE \E i \in Compatible(platform_variants, files) :
                 /\ keyword_path = ModelPaths(platform_variants)[i]
                 /\ \A j \in Compatible(platform_variants, files) : i <= j
    /\ porcupine_model.target # "wasm"
    /\ (Resolved /\ keyword_path # NoPath /\ pc = "init_stream")
          => porcupine_model = keyword_path

\* A missing access key, or a create that fails, ends the process with one
\* attempt at most, before PyAudio and the spotter stream exist and before the
\* health check and the loop.
C21_FailsOnce ==
    /\ creates <= 1
    /\ access_key = "missing"
          => (pc = "exited" /\ creates = 0 /\ porcupine = "none")
    /\ (pc = "exited" /\ (access_key = "missing" \/ (Resolved /\ porcupine = "none")))
          => /\ porcupine_audio = "none"
             /\ porcupine_stream = "none"
             /\ session = "none"
             /\ health = "none"
             /\ cycles = 0

\* C21 as stated: the model handed to the spotter is the first candidate that
\* exists and does not name a wasm target, a wasm model is never loaded, and
\* when no compatible model file exists (or the access key is missing) the
\* initialization fails once, without retry or alternative attempt: no create
\* is attempted and no spotter comes to exist, and the process exits before
\* any audio stream is opened.
C21_Original ==
    /\ C21_Selection
    /\ C21_FailsOnce
    /\ (Resolved /\ keyword_path = NoPath /\ pc # "init_porcupine")
          => (creates = 0 /\ porcupine = "none" /\ pc = "exited")

\* C21 amended: the selection rule and the single failure as stated; when no
\* compatible model file exists one create with the built-in keyword is
\* attempted, and the startup goes on with the built-in keyword if it
\* succeeds and exits if it fails.
C21_Amended ==
    /\ C21_Selection
    /\ C21_FailsOnce
    /\ (Resolved /\ keyword_path = NoPath /\ pc # "init_porcupine")
          => /\ creates = 1
             /\ \/ pc = "init_stream" /\ porcupine = "live" /\ porcupine_model = Builtin
                \/ pc = "exited" /\ porcupine = "none" /\ porcupine_model = NoPath

\* A wasm model in the project directory and a model of the second variant in
\* the parent directory exist; the latter was loaded.
C21_Witness ==
    /\ pc = "init_stream"
    /\ [target |-> "wasm", dir |-> "here"] \in files
    /\ Len(platform_variants) >= 2
    /\ keyword_path = [target |-> platform_variants[2], dir |-> "parent"]
    /\ porcupine_model = keyword_path
    /\ porcupine = "live"

(***************************************************************************)
(* Calls per detection                                                     *)
(***************************************************************************)

\* C22 as stated: per wake-word detection there are at most two
\* generate_response calls and at most two play_audio calls; once the
\* follow-up response has passed its playback step the stream check returns
\* the loop to the wake-word listener (an interrupt apart), and only a new
\* detection lets the counts start again.
C22_Original ==
    [][/\ c_calls' <= 2
       /\ c_plays' <= 2
       /\ (pc = "after_play" /\ c_calls = 2 /\ exc' = "none") => pc' = "verify"
       /\ (pc = "verify" /\ c_calls = 2 /\ exc' # "interrupt") => pc' = "wake"
       /\ (pc = "wake" /\ pc' # "wake" /\ exc' = "none")
             => (pc' = "lfi_stop" /\ c_calls' = 0 /\ c_plays' = 0)]_vars

\* C22: per wake-word detection there are at most two generate_response
\* calls and at most two play_audio calls; once the follow-up response has
\* passed its playback step the stream check returns the loop to the
\* wake-word listener, unless the spotter stream is not open (a reopen failed)
\* and is_active() raises, which ends run() through cleanup(); only a new
\* detection lets the counts start again.
C22_Amended ==
    [][/\ c_calls' <= 2
       /\ c_plays' <= 2
       /\ (pc = "after_play" /\ c_calls = 2 /\ exc' = "none") => pc' = "verify"
       /\ (pc = "verify" /\ c_calls = 2 /\ exc' # "interrupt")
             => \/ pc' = "wake"
                \/ /\ porcupine_stream # "open"
                   /\ exc' = "error"
                   /\ pc' = "cleanup_stream"
       /\ (pc = "wake" /\ pc' # "wake" /\ exc' = "none")
             => (pc' = "lfi_stop" /\ c_calls' = 0 /\ c_plays' = 0)]_vars

C22_Witness ==
    pc = "wake" /\ c_calls = 2 /\ c_plays = 2 /\ exc = "none" /\ cycles = 1

(***************************************************************************)
(* Routing flag and fallback services                                      *)
(***************************************************************************)

InitPcs == {"init_key", "init_resolve", "init_porcupine", "init_stream", "init_health"}

\* C23: use_api is assigned by the startup health check only (True exactly
\* when the endpoint answered 200) and no later step changes it; with use_api
\* False no generate_response call sends a POST to /api/ask, and with use_api
\* True every generate_response call goes to the remote request first, also
\* after earlier remote calls have failed (an interrupt apart).
C23_RoutingFixed ==
    [][/\ pc \notin InitPcs => use_api' = use_api
       /\ health' # "none" => (use_api' <=> health' = "ok")
       /\ ~use_api' => (posts' = 0 /\ c_posts' = 0 /\ pc' # "gr_post")
       /\ (pc = "gr_start" /\ exc' # "interrupt")
             => IF use_api THEN pc' = "gr_post" /\ ~fb_entered'
                ELSE pc' = "gr_fallback" /\ posts' = 0]_vars

\* A later cycle, after a remote call has failed and the fallback has run:
\* the remote request is attempted again.
C23_Witness ==
    /\ pc = "gr_post"
    /\ use_api
    /\ fallback_ever
    /\ cycles = 2
    /\ posts = 0

\* C24 as stated: once startup is over the assistant holds both fallback
\* services or neither.
C24_BothOrNeither ==
    pc \notin InitPcs => (gemini_service <=> elevenlabs_service)

(***************************************************************************)
(* What listen_for_input hands to run()                                    *)
(***************************************************************************)

\* C25: no step of listen_for_input raises an exception other than the
\* interrupt to run(); a failure to open the microphone, a failed calibration,
\* a listen timeout or error, a recognition error and a save error each make
\* it return None; it returns the path exactly when the artifact was written;
\* an artifact rejected by the speech validation or by the size check is not
\* written.
C25_NoneOnFailure ==
    [][(pc \in LfiPcs) =>
         /\ exc' \in {"none", "interrupt"}
         /\ exc' = "none" => pc' \in LfiPcs \cup {"run_input"}
         /\ (pc' = "lfi_finally" /\ ~unwinding')
               => /\ lfi_result' \in {"None", "wav"}
                  /\ lfi_result' = "wav" <=> save' = "written"
                  /\ pc \in {"lfi_mic", "lfi_calibrate", "lfi_listen"}
                        => (lfi_result' = "None" /\ save' = "none")
                  /\ recog' \in {"unknown_value", "request_error", "error"}
                        => (lfi_result' = "None" /\ save' = "none")
                  /\ (recog' = "text" /\ TrimmedLen(test_text') < 3)
                        => (lfi_result' = "None" /\ save' = "none")
                  /\ (save' # "none" /\ audio_len' < 10000)
                        => (lfi_result' = "None" /\ save' = "too_short")
                  /\ save' = "write_failed" => lfi_result' = "None"
         /\ pc' = "run_input"
               => (lfi_result' \in {"None", "wav"} /\ lfi_result' = lfi_result)
      ]_vars

\* The write of the artifact failed and the capture returns None.
C25_Witness ==
    /\ pc = "lfi_finally"
    /\ ~unwinding
    /\ save = "write_failed"
    /\ lfi_result = "None"
    /\ exc = "none"

(***************************************************************************)
(* The wake-word service of the mobile app                                 *)
(***************************************************************************)

\* C26 as stated: between two stop() calls VoiceProcessor.start is invoked
\* at most once, however the start() calls interleave.
C26_StartOnce ==
    vp_starts <= 1

\* C27 as stated: whenever a release() call resolves, the service is not
\* listening and holds no Picovoice handle.
C27_ReleasedClean ==
    [][\A t \in Tasks :
          (tk[t].m = "release" /\ tk[t].at \in {"rel_stop", "rel_delete"}
             /\ tk'[t].at = "resolved")
            => (~isListening' /\ picovoice' = "null")]_vars

(***************************************************************************)
(* The ARPlaceholder screen                                                *)
(***************************************************************************)

\* The component has unmounted, the effect's block has ended and no call into
\* the service is pending.
Settled ==
    /\ mounted = "gone"
    /\ iife = "done"
    /\ \A t \in Tasks : Free(t)

\* C28 as stated: once the component has unmounted and every pending promise
\* has settled, the service is not listening and holds no Picovoice handle.
C28_UnmountedReleased ==
    Settled => (~isListening /\ picovoice = "null")

\* C29 as stated: while the screen is mounted at most one call of
\* handleAskQuestion (request or playback) is in progress, and isLoading is
\* true exactly while one is.
C29_OneInFlight ==
    mounted = "yes" =>
        /\ Cardinality(InFlight) <= 1
        /\ ar_isLoading <=> (InFlight # {})

(***************************************************************************)
(* The avatar screen                                                       *)
(***************************************************************************)

\* C30 as stated: whenever the WebSocket opened by connect() reports an
\* error, isLoading becomes false, isConnected becomes false and an error
\* message is set.
C30_ErrorLeavesConnecting ==
    [][ws_errors' # ws_errors
          => (~av_isLoading' /\ ~av_isConnected' /\ av_error' # "null")]_vars

====
